---- MODULE Spec2Model ----
(***************************************************************************)
(* Reminder pipeline of the phase-5-cloud backend and notification         *)
(* service: the task store and its HTTP/service operations, the scheduler  *)
(* tick (two entry points), the reminders topic and the notification       *)
(* worker's handler.                                                       *)
(*                                                                         *)
(* Optional values (Python None / a value) are <<>> and <<v>>.  Instants   *)
(* are naive UTC datetimes, modelled as minutes since Monday 2024-01-01    *)
(* 00:00.  The bookkeeping columns created_at / updated_at are not         *)
(* modelled.                                                               *)
(***************************************************************************)
EXTENDS Integers, Sequences, FiniteSets, Bags, TLC

\* ---------------------------------------------------------------- bounds
MaxTime == 1    \* the clock runs from 0 to MaxTime
MaxTasks == 1   \* the tasks that requests create for the pipeline
MaxRows == 3    \* the last id the serial of tasks.id gives out
MaxSubs == 2    \* the rows of push_subscriptions
MaxBus == 2     \* the messages the topic holds

Users == {"u1", "u2"}
Endpoints == {"e1", "e2"}
Times == 0..MaxTime

None == <<>>
Some(v) == <<v>>
Opt(S) == {None} \cup {Some(v) : v \in S}

VARIABLES
    tasks,      \* table tasks: id -> row
    nextTaskId, \* the serial of tasks.id
    subs,       \* table push_subscriptions: the set of its rows
    now,        \* the wall clock (utc_now)
    bus,        \* topic "reminders": the bag of published, unacknowledged events
    out,        \* the step just taken, as seen from outside: a tick's answer,
                \* the worker's answer to the bus, or the operation applied
                \* to a task; NoOut otherwise
    pushed      \* history: the <<task_id, reminder_at, endpoint>> of the pushes
                \* the gateway accepted, for the specification that observes it

vars == <<tasks, nextTaskId, subs, now, bus, out, pushed>>

store == <<tasks, nextTaskId, subs>>

NoOut == [kind |-> "none"]

\* an operation on one task: the bus does not move, and the step is seen as
\* the operation, the task, the columns the request named (the keys of an
\* update_task patch) and the value reminder_sent had when it arrived
Logged(op, by, task_id, keys) ==
    /\ out' = [kind |-> "store", op |-> op, by |-> by, task_id |-> task_id,
               keys |-> keys, was_sent |-> tasks[task_id].reminder_sent]
    /\ UNCHANGED <<bus, pushed>>

\* a request answered with an error status before anything is written
Refused(op, by, task_id, status) ==
    /\ out' = [kind |-> "refused", op |-> op, by |-> by, task_id |-> task_id,
               status |-> status]
    /\ UNCHANGED <<bus, pushed>>

\* any other step of the store or the clock
Silent ==
    /\ out' = NoOut
    /\ UNCHANGED <<bus, pushed>>

\* ------------------------------------------------------------ task store

\* models/task.py: a new row with the column defaults
Task(user_id, title, reminder_at, due_at, is_recurring, recurrence_rule, recurrence_end, parent_task_id) ==
    [user_id |-> user_id, title |-> title, description |-> None,
     completed |-> FALSE, color |-> "default",
     pinned |-> FALSE, archived |-> FALSE, deleted_at |-> None,
     reminder_at |-> reminder_at, reminder_sent |-> FALSE, due_at |-> due_at,
     is_recurring |-> is_recurring, recurrence_rule |-> recurrence_rule,
     recurrence_end |-> recurrence_end, parent_task_id |-> parent_task_id]

\* routers/tasks.py create_task (POST /tasks)
create_task(user_id, title, reminder_at, due_at, is_recurring, recurrence_rule, recurrence_end) ==
    /\ nextTaskId <= MaxRows
    /\ tasks' = (nextTaskId :> Task(user_id, title, reminder_at, due_at,
                                    is_recurring, recurrence_rule,
                                    recurrence_end, None)) @@ tasks
    /\ nextTaskId' = nextTaskId + 1
    /\ UNCHANGED <<subs, now>>
    /\ Silent

OwnedByAnyone(user_id, task_id) == task_id \in DOMAIN tasks

\* the guard shared by the owner's operations: 404 / 403 leave the store alone
Owned(user_id, task_id) ==
    /\ task_id \in DOMAIN tasks
    /\ tasks[task_id].user_id = user_id

\* routers/tasks.py update_task: setattr for every field of the patch, then
\* the reset of reminder_sent when the patch has the key reminder_at
ApplyPatchKeepingSent(t, patch) ==
    [f \in DOMAIN t |-> IF f \in DOMAIN patch THEN patch[f] ELSE t[f]]

ApplyPatchAlwaysResetting(t, patch) ==
    [[f \in DOMAIN t |-> IF f \in DOMAIN patch THEN patch[f] ELSE t[f]]
        EXCEPT !.reminder_sent = FALSE]

ApplyPatch(t, patch) ==
    LET set == [f \in DOMAIN t |-> IF f \in DOMAIN patch THEN patch[f] ELSE t[f]]
    IN  IF "reminder_at" \in DOMAIN patch
        THEN [set EXCEPT !.reminder_sent = FALSE]
        ELSE set

update_task(user_id, task_id, patch) ==
    /\ Owned(user_id, task_id)
    /\ tasks' = [tasks EXCEPT ![task_id] = ApplyPatch(@, patch)]
    /\ UNCHANGED <<nextTaskId, subs, now>>
    /\ Logged("update_task", Some(user_id), task_id, DOMAIN patch)

\* routers/tasks.py delete_task (DELETE /tasks/{id}): soft delete
delete_task(user_id, task_id) ==
    /\ Owned(user_id, task_id)
    /\ tasks' = [tasks EXCEPT ![task_id].deleted_at = Some(now)]
    /\ UNCHANGED <<nextTaskId, subs, now>>
    /\ Logged("delete_task", Some(user_id), task_id, {})

\* routers/tasks.py restore_task (POST /tasks/{id}/restore)
restore_task(user_id, task_id) ==
    /\ Owned(user_id, task_id)
    /\ tasks' = [tasks EXCEPT ![task_id].deleted_at = None]
    /\ UNCHANGED <<nextTaskId, subs, now>>
    /\ Logged("restore_task", Some(user_id), task_id, {})

\* a table without the rows whose ids are in gone
Without(table, gone) == [id \in DOMAIN table \ gone |-> table[id]]

\* routers/tasks.py permanent_delete_task (DELETE /tasks/{id}/permanent)
permanent_delete_task(user_id, task_id) ==
    /\ Owned(user_id, task_id)
    /\ tasks' = Without(tasks, {task_id})
    /\ UNCHANGED <<nextTaskId, subs, now>>
    /\ Logged("permanent_delete_task", Some(user_id), task_id, {})

\* routers/tasks.py empty_trash (DELETE /tasks/trash/empty)
empty_trash(user_id) ==
    /\ tasks' = Without(tasks, {id \in DOMAIN tasks :
                                   /\ tasks[id].user_id = user_id
                                   /\ tasks[id].deleted_at # None})
    /\ UNCHANGED <<nextTaskId, subs, now>>
    /\ Silent

\* routers/tasks.py mark_reminder_sent (PATCH /tasks/{id}/reminder-sent): the
\* store after the request and the status it answers; no user is asked for
MarkSentForgotten(ts, task_id) == ts

MarkSentFlipping(ts, task_id) ==
    IF task_id \in DOMAIN ts
    THEN [ts EXCEPT ![task_id].reminder_sent = ~@]
    ELSE ts

MarkSent(ts, task_id) ==
    IF task_id \in DOMAIN ts
    THEN [ts EXCEPT ![task_id].reminder_sent = TRUE]
    ELSE ts

MarkSentStatus(ts, task_id) == IF task_id \in DOMAIN ts THEN 200 ELSE 404

\* the same endpoint called by any client other than the worker
mark_reminder_sent(task_id) ==
    /\ tasks' = MarkSent(tasks, task_id)
    /\ UNCHANGED <<nextTaskId, subs, now>>
    /\ IF task_id \in DOMAIN tasks
       THEN Logged("mark_reminder_sent", None, task_id, {})
       ELSE Refused("mark_reminder_sent", None, task_id,
                    MarkSentStatus(tasks, task_id))

\* routers/tasks.py list_tasks (GET /tasks): the ids of the rows the query
\* selects; the label join and the order are left out
ListTasksArchiveWithTrash(ts, user_id, filter) ==
    {id \in DOMAIN ts :
        /\ ts[id].user_id = user_id
        /\ CASE filter = "active" -> ts[id].deleted_at = None /\ ~ts[id].archived
             [] filter = "trash" -> ts[id].deleted_at # None
             [] filter = "archive" -> ts[id].archived
             [] filter = "reminders" ->
                    ts[id].reminder_at # None /\ ts[id].deleted_at = None}

list_tasks(ts, user_id, filter) ==
    {id \in DOMAIN ts :
        /\ ts[id].user_id = user_id
        /\ CASE filter = "active" -> ts[id].deleted_at = None /\ ~ts[id].archived
             [] filter = "trash" -> ts[id].deleted_at # None
             [] filter = "archive" -> ts[id].archived /\ ts[id].deleted_at = None
             [] filter = "reminders" ->
                    ts[id].reminder_at # None /\ ts[id].deleted_at = None}

\* services/task_service.py list_tasks
task_service_list_tasks(ts, user_id, status) ==
    {id \in DOMAIN ts :
        /\ ts[id].user_id = user_id
        /\ ts[id].deleted_at = None
        /\ status = "pending" => ~ts[id].completed
        /\ status = "completed" => ts[id].completed}

\* services/task_service.py list_tasks_with_reminders
list_tasks_with_reminders(ts, user_id) ==
    {id \in DOMAIN ts :
        /\ ts[id].user_id = user_id
        /\ ts[id].deleted_at = None
        /\ ts[id].reminder_at # None}

\* services/task_service.py list_recurring_tasks
list_recurring_tasks(ts, user_id) ==
    {id \in DOMAIN ts :
        /\ ts[id].user_id = user_id
        /\ ts[id].deleted_at = None
        /\ ts[id].is_recurring}

\* a listing answered: nothing is written, the caller sees the rows
Listed(op, user_id, filter, ids) ==
    /\ out' = [kind |-> "list", op |-> op, user_id |-> user_id,
               filter |-> filter, ids |-> ids]
    /\ UNCHANGED <<tasks, nextTaskId, subs, now, bus, pushed>>

\* services/task_service.py set_reminder
set_reminder(user_id, task_id, reminder_at) ==
    /\ Owned(user_id, task_id)
    /\ tasks' = [tasks EXCEPT ![task_id].reminder_at = Some(reminder_at),
                              ![task_id].reminder_sent = FALSE]
    /\ UNCHANGED <<nextTaskId, subs, now>>
    /\ Logged("set_reminder", Some(user_id), task_id, {})

\* services/task_service.py reschedule_task: a call of set_reminder
reschedule_task(user_id, task_id, new_datetime) ==
    set_reminder(user_id, task_id, new_datetime)

\* services/task_service.py remove_reminder
remove_reminder(user_id, task_id) ==
    /\ Owned(user_id, task_id)
    /\ tasks' = [tasks EXCEPT ![task_id].reminder_at = None,
                              ![task_id].reminder_sent = FALSE]
    /\ UNCHANGED <<nextTaskId, subs, now>>
    /\ Logged("remove_reminder", Some(user_id), task_id, {})

\* ------------------------------------------------------------- recurrence

Day == 24 * 60
Week == 7 * Day

IsLeap(year) == (year % 4 = 0 /\ year % 100 # 0) \/ year % 400 = 0

DaysInYear(year) == IF IsLeap(year) THEN 366 ELSE 365

\* calendar.monthrange(year, month)[1]
monthrange(year, month) ==
    CASE month = 2 -> IF IsLeap(year) THEN 29 ELSE 28
      [] month \in {4, 6, 9, 11} -> 30
      [] OTHER -> 31

RECURSIVE SplitYear(_, _)
SplitYear(days, year) ==
    IF days < DaysInYear(year) THEN <<year, days>>
    ELSE SplitYear(days - DaysInYear(year), year + 1)

RECURSIVE SplitMonth(_, _, _)
SplitMonth(days, year, month) ==
    IF days < monthrange(year, month) THEN <<month, days + 1>>
    ELSE SplitMonth(days - monthrange(year, month), year, month + 1)

\* datetime: the fields of an instant
DateOf(dt) ==
    LET yd == SplitYear(dt \div Day, 2024)
        md == SplitMonth(yd[2], yd[1], 1)
    IN  [year |-> yd[1], month |-> md[1], day |-> md[2], minute |-> dt % Day]

RECURSIVE DaysBeforeYear(_)
DaysBeforeYear(year) ==
    IF year <= 2024 THEN 0 ELSE DaysBeforeYear(year - 1) + DaysInYear(year - 1)

RECURSIVE DaysBeforeMonth(_, _)
DaysBeforeMonth(year, month) ==
    IF month <= 1 THEN 0
    ELSE DaysBeforeMonth(year, month - 1) + monthrange(year, month - 1)

\* datetime: the instant of its fields
DateTime(year, month, day, minute) ==
    (DaysBeforeYear(year) + DaysBeforeMonth(year, month) + day - 1) * Day + minute

\* datetime.weekday(): 0 is Monday
weekday(dt) == (dt \div Day) % 7

\* utils/recurrence.py RECURRENCE_PATTERNS
RECURRENCE_PATTERNS == {"daily", "weekly", "monthly", "weekdays"}

\* str.strip().lower(), on the rule texts of the model
strip_lower(rule) ==
    CASE rule = " Daily" -> "daily"
      [] rule = "WEEKLY " -> "weekly"
      [] OTHER -> rule

\* rule.startswith("cron:") and rule[5:].strip(), on the rule texts of the
\* model: the cron expression, or None for a text without the prefix
cron_expr_of(rule) ==
    CASE rule = "cron:0 10 * * 1-5" -> Some("0 10 * * 1-5")
      [] rule = "cron:*/30 * * * *" -> Some("*/30 * * * *")
      [] rule = "cron:0 9 * * 1" -> Some("0 9 * * 1")
      [] rule = "cron:0 0 * * 0" -> Some("0 0 * * 0")
      [] rule = "cron:0,30 * * * *" -> Some("0,30 * * * *")
      [] rule = "cron:0 0 1 1 *" -> Some("0 0 1 1 *")
      [] rule = "cron:0 10 * *" -> Some("0 10 * *")
      [] rule = "cron:" -> Some("")
      [] OTHER -> None

\* str.split(), on the cron expressions of the model
split(cron_expr) ==
    CASE cron_expr = "0 10 * * 1-5" -> <<"0", "10", "*", "*", "1-5">>
      [] cron_expr = "*/30 * * * *" -> <<"*/30", "*", "*", "*", "*">>
      [] cron_expr = "0 9 * * 1" -> <<"0", "9", "*", "*", "1">>
      [] cron_expr = "0 0 * * 0" -> <<"0", "0", "*", "*", "0">>
      [] cron_expr = "0,30 * * * *" -> <<"0,30", "*", "*", "*", "*">>
      [] cron_expr = "0 0 1 1 *" -> <<"0", "0", "1", "1", "*">>
      [] cron_expr = "0 10 * *" -> <<"0", "10", "*", "*">>
      [] cron_expr = "" -> <<>>
      [] OTHER -> <<cron_expr>>

\* utils/recurrence.py parse_recurrence_rule: the rule type and the cron
\* expression, or ValueError (ok is false)
parse_recurrence_rule(rule) ==
    IF rule = "" THEN [ok |-> FALSE]
    ELSE IF strip_lower(rule) \in RECURRENCE_PATTERNS
    THEN [ok |-> TRUE, rule_type |-> strip_lower(rule), cron_expr |-> None]
    ELSE IF cron_expr_of(strip_lower(rule)) # None
    THEN LET cron_expr == cron_expr_of(strip_lower(rule))[1]
         IN  IF cron_expr = "" THEN [ok |-> FALSE]
             ELSE IF Len(split(cron_expr)) # 5 THEN [ok |-> FALSE]
             ELSE [ok |-> TRUE, rule_type |-> "cron", cron_expr |-> Some(cron_expr)]
    ELSE [ok |-> FALSE]

AddMonthsKeepingDay(dt, months) ==
    LET d == DateOf(dt)
        month0 == d.month - 1 + months
        year == d.year + month0 \div 12
        month == (month0 % 12) + 1
    IN  DateTime(year, month, d.day, d.minute)

\* utils/recurrence.py _add_months
_add_months(dt, months) ==
    LET d == DateOf(dt)
        month0 == d.month - 1 + months
        year == d.year + month0 \div 12
        month == (month0 % 12) + 1
        max_day == monthrange(year, month)
        day == IF d.day < max_day THEN d.day ELSE max_day
    IN  DateTime(year, month, day, d.minute)

\* utils/recurrence.py _next_weekday
RECURSIVE SkipWeekend(_)
SkipWeekend(next_day) ==
    IF weekday(next_day) > 4 THEN SkipWeekend(next_day + Day) ELSE next_day

NextWeekdayFromToday(dt) == SkipWeekend(dt)

_next_weekday(dt) == SkipWeekend(dt + Day)

\* int(text), on the cron field texts of the model; None is ValueError
int(text) ==
    CASE text = "0" -> Some(0)
      [] text = "1" -> Some(1)
      [] text = "9" -> Some(9)
      [] text = "10" -> Some(10)
      [] OTHER -> None

\* utils/recurrence.py _matches_field, on the cron field texts of the model:
\* "*", a step "*/n", a list "a,b", a range "a-b", a single number
_matches_field(value, pattern) ==
    CASE pattern = "*" -> TRUE
      [] pattern = "*/30" -> value % 30 = 0
      [] pattern = "0,30" -> value \in {0, 30}
      [] pattern = "1-5" -> 1 <= value /\ value <= 5
      [] OTHER -> int(pattern) # None /\ value = int(pattern)[1]

MatchesCronDayOfWeekFromMonday(dt, minute, hour, day, month, dow) ==
    /\ _matches_field(dt % 60, minute)
    /\ _matches_field((dt % Day) \div 60, hour)
    /\ _matches_field(DateOf(dt).day, day)
    /\ _matches_field(DateOf(dt).month, month)
    /\ _matches_field(weekday(dt), dow)

\* utils/recurrence.py _matches_cron
_matches_cron(dt, minute, hour, day, month, dow) ==
    LET python_dow == (weekday(dt) + 1) % 7
    IN  /\ _matches_field(dt % 60, minute)
        /\ _matches_field((dt % Day) \div 60, hour)
        /\ _matches_field(DateOf(dt).day, day)
        /\ _matches_field(DateOf(dt).month, month)
        /\ _matches_field(python_dow, dow)

max_iterations == 525600

\* utils/recurrence.py _next_cron_occurrence: the loop over the candidates
\* candidate, candidate + 1, ..., left of them, returning the first that
\* matches; the range is searched first half first, which finds the same
\* candidate as the loop
RECURSIVE ScanCron(_, _, _)
ScanCron(candidate, parts, left) ==
    IF left = 0 THEN None
    ELSE IF left = 1
    THEN IF _matches_cron(candidate, parts[1], parts[2], parts[3], parts[4], parts[5])
         THEN Some(candidate)
         ELSE None
    ELSE LET first == ScanCron(candidate, parts, left \div 2)
         IN  IF first # None THEN first
             ELSE ScanCron(candidate + left \div 2, parts, left - left \div 2)

\* utils/recurrence.py _next_cron_occurrence; instants are whole minutes
_next_cron_occurrence(dt, cron_expr) ==
    LET parts == split(cron_expr)
    IN  IF Len(parts) # 5 THEN None
        ELSE ScanCron(dt + 1, parts, max_iterations)

CalculateNextOccurrenceEndingEarly(current_date, recurrence_rule, recurrence_end) ==
    LET parsed == parse_recurrence_rule(recurrence_rule)
        rule_type == parsed.rule_type
        next_date == CASE rule_type = "daily" -> Some(current_date + Day)
                       [] rule_type = "weekly" -> Some(current_date + Week)
                       [] rule_type = "monthly" -> Some(_add_months(current_date, 1))
                       [] rule_type = "weekdays" -> Some(_next_weekday(current_date))
                       [] rule_type = "cron" ->
                             _next_cron_occurrence(current_date, parsed.cron_expr[1])
    IN  IF /\ next_date # None
           /\ recurrence_end # None
           /\ next_date[1] >= recurrence_end[1]
        THEN None
        ELSE next_date

\* utils/recurrence.py calculate_next_occurrence, for a rule that parses
calculate_next_occurrence(current_date, recurrence_rule, recurrence_end) ==
    LET parsed == parse_recurrence_rule(recurrence_rule)
        rule_type == parsed.rule_type
        next_date == CASE rule_type = "daily" -> Some(current_date + Day)
                       [] rule_type = "weekly" -> Some(current_date + Week)
                       [] rule_type = "monthly" -> Some(_add_months(current_date, 1))
                       [] rule_type = "weekdays" -> Some(_next_weekday(current_date))
                       [] rule_type = "cron" ->
                             _next_cron_occurrence(current_date, parsed.cron_expr[1])
    IN  IF /\ next_date # None
           /\ recurrence_end # None
           /\ next_date[1] > recurrence_end[1]
        THEN None
        ELSE next_date

\* dapr_client.py TaskEvent / publish_task_event: the payload; the timestamp
\* is the clock's
TaskEvent(event_type, task_id, user_id, task_data, is_recurring, recurrence_rule) ==
    [event_type |-> event_type, task_id |-> task_id, user_id |-> user_id,
     task_data |-> task_data, timestamp |-> now,
     is_recurring |-> is_recurring, recurrence_rule |-> recurrence_rule]

NextTaskLinkedToCompleted(task, task_id, next_date) ==
    [Task(task.user_id, task.title,
          IF task.reminder_at # None THEN next_date ELSE None,
          IF task.due_at # None /\ task.reminder_at = None
          THEN next_date ELSE None,
          TRUE, task.recurrence_rule, task.recurrence_end, Some(task_id))
     EXCEPT !.description = task.description,
            !.color = task.color,
            !.pinned = task.pinned]

NextTaskUnpinned(task, task_id, next_date) ==
    [Task(task.user_id, task.title,
          IF task.reminder_at # None THEN next_date ELSE None,
          IF task.due_at # None /\ task.reminder_at = None
          THEN next_date ELSE None,
          TRUE, task.recurrence_rule, task.recurrence_end,
          IF task.parent_task_id # None
          THEN task.parent_task_id ELSE Some(task_id))
     EXCEPT !.description = task.description,
            !.color = task.color]

\* routers/tasks.py toggle_task_complete: the row of the next occurrence
NextTask(task, task_id, next_date) ==
    [Task(task.user_id, task.title,
          IF task.reminder_at # None THEN next_date ELSE None,
          IF task.due_at # None /\ task.reminder_at = None
          THEN next_date ELSE None,
          TRUE, task.recurrence_rule, task.recurrence_end,
          IF task.parent_task_id # None
          THEN task.parent_task_id ELSE Some(task_id))
     EXCEPT !.description = task.description,
            !.color = task.color,
            !.pinned = task.pinned]

ToggledAlwaysClearingRecurring(task, next_date) ==
    [task EXCEPT !.completed = ~task.completed, !.is_recurring = FALSE]

ToggledStayingRecurring(task, next_date) ==
    [task EXCEPT !.completed = ~task.completed]

\* routers/tasks.py toggle_task_complete: the toggled row, which stops being
\* recurring when a next occurrence is made
Toggled(task, next_date) ==
    IF next_date # None
    THEN [task EXCEPT !.completed = ~task.completed, !.is_recurring = FALSE]
    ELSE [task EXCEPT !.completed = ~task.completed]

CompletedEventOfEveryToggle(task, task_id, next_task_id) ==
    Some(TaskEvent("completed", task_id, task.user_id,
                   [title |-> task.title, completed |-> task.completed,
                    next_occurrence_id |-> next_task_id],
                   task.is_recurring, task.recurrence_rule))

CompletedEventOfTheRowRead(task, task_id, next_task_id) ==
    IF task.completed
    THEN Some(TaskEvent("completed", task_id, task.user_id,
                        [title |-> task.title, completed |-> task.completed,
                         next_occurrence_id |-> next_task_id],
                        task.is_recurring \/ next_task_id # None,
                        task.recurrence_rule))
    ELSE None

\* routers/tasks.py toggle_task_complete: the event handed to
\* publish_task_event after the commit, from the refreshed row; None when
\* the row is not completed
completed_event(task, task_id, next_task_id) ==
    IF task.completed
    THEN Some(TaskEvent("completed", task_id, task.user_id,
                        [title |-> task.title, completed |-> task.completed,
                         next_occurrence_id |-> next_task_id],
                        task.is_recurring, task.recurrence_rule))
    ELSE None

\* routers/tasks.py toggle_task_complete: task.reminder_at or task.due_at or
\* _utc_now()
base_date(task) ==
    IF task.reminder_at # None THEN task.reminder_at[1]
    ELSE IF task.due_at # None THEN task.due_at[1]
    ELSE now

\* routers/tasks.py toggle_task_complete (PATCH /tasks/{id}/complete): the
\* toggle, the next occurrence, the one commit, the publish of the event.
\* A rule that does not parse raises before the commit and a commit may
\* fail: the request is answered 500 and nothing is stored or published.
\* publish_ok says whether the sidecar took the event; the answer is 200
\* either way.
toggle_task_complete(user_id, task_id, commit_ok, publish_ok) ==
    LET task == tasks[task_id]
        completed == ~task.completed
        recurs == /\ completed
                  /\ task.is_recurring
                  /\ task.recurrence_rule \notin {None, Some("")}
        raises == recurs /\ ~parse_recurrence_rule(task.recurrence_rule[1]).ok
        next_date == IF recurs /\ ~raises
                     THEN calculate_next_occurrence(base_date(task),
                              task.recurrence_rule[1], task.recurrence_end)
                     ELSE None
        event == completed_event(Toggled(task, next_date), task_id,
                                 IF next_date # None THEN Some(nextTaskId) ELSE None)
        seen == [kind |-> "store", op |-> "toggle_task_complete",
                 by |-> Some(user_id), task_id |-> task_id, keys |-> {},
                 was_sent |-> task.reminder_sent]
    IN  /\ Owned(user_id, task_id)
        /\ IF raises \/ ~commit_ok
           THEN /\ UNCHANGED <<tasks, nextTaskId>>
                /\ out' = seen @@ [status |-> 500, event |-> None,
                                   published |-> FALSE]
           ELSE /\ IF next_date # None
                   THEN /\ nextTaskId <= MaxRows
                        /\ tasks' = (nextTaskId :> NextTask(task, task_id, next_date))
                                    @@ [tasks EXCEPT ![task_id] = Toggled(task, next_date)]
                        /\ nextTaskId' = nextTaskId + 1
                   ELSE /\ tasks' = [tasks EXCEPT ![task_id] = Toggled(task, next_date)]
                        /\ UNCHANGED nextTaskId
                /\ out' = seen @@ [status |-> 200, event |-> event,
                                   published |-> event # None /\ publish_ok]
        /\ UNCHANGED <<subs, now, bus, pushed>>

\* routers/tasks.py toggle_task_complete, two requests on one task that
\* overlap: each has its own session, both read the row with session.get
\* (no lock, no version column) before either commits, each inserts the next
\* occurrence it computed and updates the row it read; the commits follow
\* one another
toggle_task_complete_twice(user_id, task_id) ==
    LET task == tasks[task_id]
        recurs == /\ ~task.completed
                  /\ task.is_recurring
                  /\ task.recurrence_rule \notin {None, Some("")}
        next_date == calculate_next_occurrence(base_date(task),
                         task.recurrence_rule[1], task.recurrence_end)
    IN  /\ Owned(user_id, task_id)
        /\ recurs
        /\ parse_recurrence_rule(task.recurrence_rule[1]).ok
        /\ next_date # None
        /\ nextTaskId + 1 <= MaxRows
        /\ tasks' = (nextTaskId :> NextTask(task, task_id, next_date))
                    @@ ((nextTaskId + 1) :> NextTask(task, task_id, next_date))
                    @@ [tasks EXCEPT ![task_id] = Toggled(task, next_date)]
        /\ nextTaskId' = nextTaskId + 2
        /\ out' = [kind |-> "store", op |-> "toggle_task_complete, twice",
                   by |-> Some(user_id), task_id |-> task_id, keys |-> {},
                   was_sent |-> task.reminder_sent]
        /\ UNCHANGED <<subs, now, bus, pushed>>

\* services/task_service.py toggle_complete
toggle_complete(user_id, task_id) ==
    /\ Owned(user_id, task_id)
    /\ tasks' = [tasks EXCEPT ![task_id].completed = ~@]
    /\ UNCHANGED <<nextTaskId, subs, now>>
    /\ Logged("toggle_complete", Some(user_id), task_id, {})

\* services/task_service.py set_recurring: the rule is stored as it comes
set_recurring(user_id, task_id, recurrence_rule, recurrence_end) ==
    /\ Owned(user_id, task_id)
    /\ tasks' = [tasks EXCEPT ![task_id].is_recurring = TRUE,
                              ![task_id].recurrence_rule = Some(recurrence_rule),
                              ![task_id].recurrence_end = recurrence_end]
    /\ UNCHANGED <<nextTaskId, subs, now>>
    /\ Logged("set_recurring", Some(user_id), task_id, {})

\* services/task_service.py remove_recurring
remove_recurring(user_id, task_id) ==
    /\ Owned(user_id, task_id)
    /\ tasks' = [tasks EXCEPT ![task_id].is_recurring = FALSE,
                              ![task_id].recurrence_rule = None,
                              ![task_id].recurrence_end = None]
    /\ UNCHANGED <<nextTaskId, subs, now>>
    /\ Logged("remove_recurring", Some(user_id), task_id, {})

\* str.lower(), on the pattern texts of the model
lower(text) ==
    CASE text = "Weekly" -> "weekly"
      [] text = " Daily" -> " daily"
      [] OTHER -> text

\* mcp/tools.py add_recurring_task: a pattern that is not one of the four
\* is refused; the others are stored, in lower case, by
\* task_service.create_task
add_recurring_task(user_id, title, recurrence_pattern) ==
    /\ IF lower(recurrence_pattern) \notin {"daily", "weekly", "monthly", "weekdays"}
       THEN /\ UNCHANGED <<tasks, nextTaskId>>
            /\ out' = [kind |-> "tool", op |-> "add_recurring_task",
                       success |-> FALSE]
       ELSE /\ nextTaskId <= MaxRows
            /\ tasks' = (nextTaskId :> Task(user_id, title, None, None, TRUE,
                                            Some(lower(recurrence_pattern)),
                                            None, None)) @@ tasks
            /\ nextTaskId' = nextTaskId + 1
            /\ out' = [kind |-> "tool", op |-> "add_recurring_task",
                       success |-> TRUE]
    /\ UNCHANGED <<subs, now, bus, pushed>>

\* ----------------------------------------------------- push subscriptions

\* models/push_subscription.py: a row
PushSubscription(user_id, endpoint, p256dh_key, auth_key, user_agent) ==
    [user_id |-> user_id, endpoint |-> endpoint,
     p256dh_key |-> p256dh_key, auth_key |-> auth_key,
     user_agent |-> user_agent]

\* models/push_subscription.py to_webpush_dict
to_webpush_dict(row) ==
    [endpoint |-> row.endpoint,
     keys |-> [p256dh |-> row.p256dh_key, auth |-> row.auth_key]]

\* migrate_part_b.py: the unique index on push_subscriptions(endpoint)
EndpointNeverTaken(rows, endpoint) == FALSE

EndpointTaken(rows, endpoint) == \E row \in rows : row.endpoint = endpoint

\* the SELECT of create_push_subscription and delete_push_subscription
Existing(rows, user_id, endpoint) ==
    {row \in rows : row.user_id = user_id /\ row.endpoint = endpoint}

\* routers/push_subscriptions.py create_push_subscription after its SELECT
\* found the rows existing: the table and the status once the request has
\* committed; the row found is updated, else one is inserted, and an insert
\* the unique index rejects is an IntegrityError nobody handles
Registered(rows, existing, user_id, data) ==
    IF existing # {}
    THEN [status |-> 201,
          subs |-> {IF row \in Existing(rows, user_id, data.endpoint)
                    THEN [row EXCEPT !.p256dh_key = data.p256dh_key,
                                     !.auth_key = data.auth_key,
                                     !.user_agent = data.user_agent]
                    ELSE row : row \in rows}]
    ELSE IF EndpointTaken(rows, data.endpoint)
    THEN [status |-> 500, subs |-> rows]
    ELSE [status |-> 201,
          subs |-> rows \cup {PushSubscription(user_id, data.endpoint,
                                  data.p256dh_key, data.auth_key,
                                  data.user_agent)}]

\* routers/push_subscriptions.py delete_push_subscription: the table after
DeletedWithTheUsersOtherRows(rows, user_id, endpoint) ==
    {row \in rows : row.user_id # user_id}

Deleted(rows, user_id, endpoint) == rows \ Existing(rows, user_id, endpoint)

\* routers/push_subscriptions.py delete_all_push_subscriptions: the table after
DeletedAll(rows, user_id) == {row \in rows : row.user_id # user_id}

\* routers/push_subscriptions.py create_push_subscription (POST), when it
\* answers 201
create_push_subscription(user_id, endpoint, p256dh_key, auth_key) ==
    LET data == [endpoint |-> endpoint, p256dh_key |-> p256dh_key,
                 auth_key |-> auth_key, user_agent |-> None]
        existing == Existing(subs, user_id, endpoint)
        result == Registered(subs, existing, user_id, data)
    IN  /\ Cardinality(existing) <= 1
        /\ result.status = 201
        /\ Cardinality(result.subs) <= MaxSubs
        /\ subs' = result.subs
        /\ UNCHANGED <<tasks, nextTaskId, now>>
        /\ Silent

\* routers/push_subscriptions.py delete_push_subscription (DELETE)
delete_push_subscription(user_id, endpoint) ==
    /\ Cardinality(Existing(subs, user_id, endpoint)) = 1
    /\ subs' = Deleted(subs, user_id, endpoint)
    /\ UNCHANGED <<tasks, nextTaskId, now>>
    /\ Silent

\* routers/push_subscriptions.py delete_all_push_subscriptions (DELETE /all)
delete_all_push_subscriptions(user_id) ==
    /\ \E row \in subs : row.user_id = user_id
    /\ subs' = DeletedAll(subs, user_id)
    /\ UNCHANGED <<tasks, nextTaskId, now>>
    /\ Silent

\* a request on the subscriptions as its caller sees it: the operation, the
\* caller, the body and the status, with the table it leaves
Answered(op, user_id, data, status, rows) ==
    /\ subs' = rows
    /\ out' = [kind |-> "subs", op |-> op, user_id |-> user_id, data |-> data,
               status |-> status]
    /\ UNCHANGED <<tasks, nextTaskId, now, bus, pushed>>

\* two POSTs of one endpoint that overlap: both SELECT before either commits,
\* then the first commits and the second
RegisteredTogether(user_ids, datas) ==
    LET first == Registered(subs, Existing(subs, user_ids[1], datas[1].endpoint),
                            user_ids[1], datas[1])
        second == Registered(first.subs,
                             Existing(subs, user_ids[2], datas[2].endpoint),
                             user_ids[2], datas[2])
    IN  /\ datas[1].endpoint = datas[2].endpoint
        /\ Answered("create_push_subscription, twice", user_ids, datas,
                    <<first.status, second.status>>, second.subs)

\* ------------------------------------------------------------------ clock

\* time passes
Advance ==
    /\ now < MaxTime
    /\ now' = now + 1
    /\ UNCHANGED store
    /\ Silent

\* -------------------------------------------------------------- scheduler

DueTasksIgnoringSent(at) ==
    {id \in DOMAIN tasks : /\ tasks[id].reminder_at # None
                           /\ tasks[id].reminder_at[1] <= at
                           /\ tasks[id].deleted_at = None}

\* routers/tasks.py handle_cron_binding: the query for the due tasks
DueTasks(at) ==
    {id \in DOMAIN tasks : /\ tasks[id].reminder_at # None
                           /\ tasks[id].reminder_at[1] <= at
                           /\ tasks[id].reminder_sent = FALSE
                           /\ tasks[id].deleted_at = None}

\* routers/tasks.py handle_cron_binding: the subscriptions loaded for a task
SubscriptionsOf(user_id) == {row \in subs : row.user_id = user_id}

DuePairsOfAnyUser(at) == DueTasks(at) \X subs

\* routers/tasks.py handle_cron_binding: the two nested loops, as the set of
\* <<task id, subscription row>> a tick calls publish_reminder_event for
DuePairs(at) ==
    {p \in DueTasks(at) \X subs : p[2] \in SubscriptionsOf(tasks[p[1]].user_id)}

\* dapr_client.py ReminderEvent / publish_reminder_event: the payload
ReminderEvent(task_id, subscription) ==
    [task_id |-> task_id,
     user_id |-> tasks[task_id].user_id,
     title |-> tasks[task_id].title,
     reminder_at |-> tasks[task_id].reminder_at,
     due_at |-> tasks[task_id].due_at,
     push_subscription |-> to_webpush_dict(subscription)]

\* the events of the pairs whose publish the sidecar answered with 204
Published(ok) ==
    LET evs == {ReminderEvent(p[1], p[2]) : p \in ok}
    IN  [e \in evs |-> Cardinality({p \in ok : ReminderEvent(p[1], p[2]) = e})]

TickMarkingSent(at, ok) ==
    /\ ok \subseteq DuePairs(at)
    /\ BagCardinality(bus) + Cardinality(ok) <= MaxBus
    /\ bus' = bus (+) Published(ok)
    /\ out' = [kind |-> "tick", attempted |-> DuePairs(at),
               reminders_published |-> Cardinality(ok)]
    /\ tasks' = [id \in DOMAIN tasks |->
                   IF \E p \in ok : p[1] = id
                   THEN [tasks[id] EXCEPT !.reminder_sent = TRUE]
                   ELSE tasks[id]]
    /\ UNCHANGED <<nextTaskId, subs, now, pushed>>

TickMarkingTheDueTasks(at, ok) ==
    /\ ok \subseteq DuePairs(at)
    /\ BagCardinality(bus) + Cardinality(ok) <= MaxBus
    /\ bus' = bus (+) Published(ok)
    /\ out' = [kind |-> "tick", attempted |-> DuePairs(at),
               reminders_published |-> Cardinality(ok)]
    /\ tasks' = [id \in DOMAIN tasks |->
                   IF id \in DueTasks(at)
                   THEN [tasks[id] EXCEPT !.reminder_sent = TRUE]
                   ELSE tasks[id]]
    /\ UNCHANGED <<nextTaskId, subs, now, pushed>>

TickCountingAttempts(at, ok) ==
    /\ ok \subseteq DuePairs(at)
    /\ BagCardinality(bus) + Cardinality(ok) <= MaxBus
    /\ bus' = bus (+) Published(ok)
    /\ out' = [kind |-> "tick", attempted |-> DuePairs(at),
               reminders_published |-> Cardinality(DuePairs(at))]
    /\ UNCHANGED store
    /\ UNCHANGED <<now, pushed>>

\* one tick: every due pair is attempted, publish_event succeeds for the
\* pairs in ok and fails for the others, the answer counts the successes
Tick(at, ok) ==
    /\ ok \subseteq DuePairs(at)
    /\ BagCardinality(bus) + Cardinality(ok) <= MaxBus
    /\ bus' = bus (+) Published(ok)
    /\ out' = [kind |-> "tick", attempted |-> DuePairs(at),
               reminders_published |-> Cardinality(ok)]
    /\ UNCHANGED store
    /\ UNCHANGED <<now, pushed>>

\* routers/tasks.py handle_cron_binding (POST /api/tasks/reminders/binding)
handle_cron_binding == \E ok \in SUBSET DuePairs(now) : Tick(now, ok)

ReminderCronMarkingSent == \E ok \in SUBSET DuePairs(now) : TickMarkingSent(now, ok)

\* main.py handle_reminder_cron (POST /reminder-cron)
handle_reminder_cron == \E ok \in SUBSET DuePairs(now) : Tick(now, ok)

\* ------------------------------------------------------------------- bus

\* at-least-once delivery: the bus may deliver a message more than once
Redeliver(e) ==
    /\ e \in BagToSet(bus)
    /\ BagCardinality(bus) < MaxBus
    /\ bus' = bus (+) SetToBag({e})
    /\ UNCHANGED store
    /\ out' = NoOut
    /\ UNCHANGED <<now, pushed>>

\* messages on the topic that the backend did not publish: a body that is
\* not JSON, a CloudEvent whose data is not an object, an event without
\* push_subscription and an event without task_id
MalformedMessages ==
    {[body |-> "not json"],
     [data |-> "text"],
     [task_id |-> 1, title |-> "t"],
     [title |-> "t",
      push_subscription |-> to_webpush_dict(PushSubscription("u1", "e1", "p", "a", None))]}

\* the topic takes what any client of the pub/sub component publishes
PublishForeign(m) ==
    /\ BagCardinality(bus) < MaxBus
    /\ bus' = bus (+) SetToBag({m})
    /\ UNCHANGED store
    /\ out' = NoOut
    /\ UNCHANGED <<now, pushed>>

\* ---------------------------------------------------------------- worker

\* the credentials of a request: the worker's requests carry none
NoCredentials == None

\* auth.py get_current_user: the caller's user id, or None when the request
\* is rejected (no bearer token, or one that does not verify)
get_current_user(credentials) == credentials

\* routers/tasks.py get_task (GET /tasks/{id}): status and body
get_task(task_id, credentials) ==
    LET user_id == get_current_user(credentials)
    IN  IF user_id = None THEN [status |-> 401]
        ELSE IF task_id \notin DOMAIN tasks THEN [status |-> 404]
        ELSE IF tasks[task_id].user_id # user_id[1] THEN [status |-> 403]
        ELSE [status |-> 200, body |-> tasks[task_id]]

CheckReminderAlwaysSent(task_id, reachable) == TRUE

CheckReminderReadingTheRow(task_id, reachable) ==
    reachable /\ task_id \in DOMAIN tasks /\ tasks[task_id].reminder_sent

\* handlers.py check_reminder_already_sent: reachable says whether the GET
\* got an answer at all
check_reminder_already_sent(task_id, reachable) ==
    IF reachable
    THEN LET response == get_task(task_id, NoCredentials)
         IN  IF response.status = 200 THEN response.body.reminder_sent ELSE FALSE
    ELSE FALSE

\* what webpush() can do: return (the gateway accepted, 201), raise a
\* WebPushException with a response of some status, raise one without a
\* response, or raise another exception (timeout, connection error);
\* mentions says whether "400" or "410" occurs in str(e)
GatewayOutcomes ==
    {[kind |-> "accepted", status |-> 201, mentions |-> FALSE]}
    \cup {[kind |-> "webpush_error", status |-> st, mentions |-> TRUE] : st \in {400, 410}}
    \cup {[kind |-> "webpush_error", status |-> st, mentions |-> m] :
             st \in {429, 500}, m \in BOOLEAN}
    \cup {[kind |-> "webpush_error", status |-> 0, mentions |-> m] : m \in BOOLEAN}
    \cup {[kind |-> "exception", status |-> 0, mentions |-> FALSE]}
    \cup {[kind |-> "no_vapid_keys", status |-> 0, mentions |-> FALSE]}

\* push.py send_push_notification: the bool it returns
send_push_notification(outcome) ==
    CASE outcome.kind = "no_vapid_keys" -> FALSE
      [] outcome.kind = "accepted" -> TRUE
      [] outcome.kind = "webpush_error" ->
            LET should_ack == \/ outcome.status \in {400, 410}
                              \/ outcome.mentions
            IN  should_ack
      [] OTHER -> FALSE

\* the triple a push is counted under
PushKey(e) == <<e.task_id, e.reminder_at, e.push_subscription.endpoint>>

\* handlers.py handle_reminder_event: the early return for an event without
\* task_id or push_subscription, the dedup probe, the push, the PATCH (whose
\* answer is not looked at) and the bool that is returned.  The result is the
\* returned bool, whether webpush() was called, and the store after the
\* handler.
handle_reminder_event(e, probe_reachable, outcome, mark_reachable) ==
    IF "task_id" \notin DOMAIN e \/ "push_subscription" \notin DOMAIN e
    THEN [success |-> TRUE, dispatched |-> FALSE, mark |-> 0, tasks |-> tasks]
    ELSE IF check_reminder_already_sent(e.task_id, probe_reachable)
    THEN [success |-> TRUE, dispatched |-> FALSE, mark |-> 0, tasks |-> tasks]
    ELSE IF send_push_notification(outcome)
    THEN [success |-> TRUE, dispatched |-> TRUE,
          mark |-> IF mark_reachable THEN MarkSentStatus(tasks, e.task_id) ELSE 0,
          tasks |-> IF mark_reachable THEN MarkSent(tasks, e.task_id) ELSE tasks]
    ELSE [success |-> FALSE, dispatched |-> outcome.kind # "no_vapid_keys",
          mark |-> 0, tasks |-> tasks]

\* main.py handle_reminders_topic, the try block: request.json() raises for
\* a body that is not JSON, event_data.get raises for data that is no object
Raises(e) == "body" \in DOMAIN e \/ "data" \in DOMAIN e

StatusNackingExceptions(e, r) ==
    IF Raises(e) THEN "RETRY"
    ELSE IF r.success THEN "SUCCESS" ELSE "RETRY"

\* main.py handle_reminders_topic: the status answered to the bus
Status(e, r) ==
    IF Raises(e) THEN "DROP"
    ELSE IF r.success THEN "SUCCESS" ELSE "RETRY"

\* main.py handle_reminders_topic (POST /events/reminders): one delivery of
\* one message; SUCCESS and DROP consume it, RETRY leaves it on the bus
Deliver(e, probe_reachable, outcome, mark_reachable) ==
    LET r == handle_reminder_event(e, probe_reachable, outcome, mark_reachable)
    IN  /\ e \in BagToSet(bus)
        /\ tasks' = IF Raises(e) THEN tasks ELSE r.tasks
        /\ bus' = IF Status(e, r) # "RETRY" THEN bus (-) SetToBag({e}) ELSE bus
        /\ UNCHANGED <<nextTaskId, subs, now>>

\* the delivery as the pipeline sees it: the status answered to the bus
handle_reminders_topic(e, probe_reachable, outcome, mark_reachable) ==
    LET r == handle_reminder_event(e, probe_reachable, outcome, mark_reachable)
    IN  /\ Deliver(e, probe_reachable, outcome, mark_reachable)
        /\ out' = [kind |-> "ack", status |-> Status(e, r)]
        /\ UNCHANGED pushed

\* the same delivery with the worker's calls observed: the event, what the
\* store said of the task when the event arrived, whether webpush() was
\* called and what the gateway answered, what the PATCH answered, and the
\* pushes the gateway accepted so far
ObservedDelivery(e, probe_reachable, outcome, mark_reachable) ==
    LET r == handle_reminder_event(e, probe_reachable, outcome, mark_reachable)
        dispatched == ~Raises(e) /\ r.dispatched
        accepted == dispatched /\ outcome.kind = "accepted"
    IN  /\ Deliver(e, probe_reachable, outcome, mark_reachable)
        /\ out' = [kind |-> "ack", status |-> Status(e, r), event |-> e,
                   was_sent |-> /\ "task_id" \in DOMAIN e
                                /\ e.task_id \in DOMAIN tasks
                                /\ tasks[e.task_id].reminder_sent,
                   dispatched |-> dispatched,
                   gateway |-> IF dispatched THEN outcome.status ELSE 0,
                   mark |-> IF Raises(e) THEN 0 ELSE r.mark]
        /\ pushed' = IF accepted THEN pushed \cup {PushKey(e)} ELSE pushed

Init ==
    /\ tasks = <<>>
    /\ nextTaskId = 1
    /\ subs = {}
    /\ now = 0
    /\ bus = EmptyBag
    /\ out = NoOut
    /\ pushed = {}

\* the patches of update_task that the pipeline is checked with
Patches == {[reminder_at |-> r] : r \in Opt(Times)} \cup {[title |-> "t"]}

Next ==
    \/ \E u \in {"u1"}, r \in Opt(Times) :
          nextTaskId <= MaxTasks /\ create_task(u, "t", r, None, FALSE, None, None)
    \/ \E u \in Users, id \in DOMAIN tasks, patch \in Patches :
          update_task(u, id, patch)
    \/ \E u \in Users, id \in DOMAIN tasks, commit_ok, publish_ok \in BOOLEAN :
          toggle_task_complete(u, id, commit_ok, publish_ok)
    \/ \E u \in Users, id \in DOMAIN tasks : toggle_complete(u, id)
    \/ \E u \in Users, id \in DOMAIN tasks : delete_task(u, id)
    \/ \E u \in Users, id \in DOMAIN tasks : restore_task(u, id)
    \/ \E u \in Users, id \in DOMAIN tasks : permanent_delete_task(u, id)
    \/ \E u \in Users : empty_trash(u)
    \/ \E id \in DOMAIN tasks : mark_reminder_sent(id)
    \/ \E u \in Users, id \in DOMAIN tasks, r \in Times : set_reminder(u, id, r)
    \/ \E u \in Users, id \in DOMAIN tasks, r \in Times : reschedule_task(u, id, r)
    \/ \E u \in Users, id \in DOMAIN tasks : remove_reminder(u, id)
    \/ \E r \in {<<"u1","e1">>, <<"u1","e2">>, <<"u2","e2">>} : create_push_subscription(r[1], r[2], "p", "a")
    \/ \E u \in Users, ep \in Endpoints : delete_push_subscription(u, ep)
    \/ \E u \in Users : delete_all_push_subscriptions(u)
    \/ Advance
    \/ handle_cron_binding
    \/ handle_reminder_cron
    \/ \E e \in BagToSet(bus) : Redeliver(e)
    \/ \E e \in BagToSet(bus), pr, mr \in BOOLEAN, outcome \in GatewayOutcomes :
          handle_reminders_topic(e, pr, outcome, mr)

Spec == Init /\ [][Next]_vars

\* the worker observed: a reminder is armed once and never re-armed, so that
\* every push the gateway accepts for it counts against the same
\* (task_id, reminder_at); the ticks, the bus and the deliveries with their
\* calls recorded
NextWorker ==
    \/ nextTaskId <= MaxTasks /\ create_task("u1", "t", Some(0), None, FALSE, None, None)
    \/ \E id \in DOMAIN tasks : permanent_delete_task("u1", id)
    \/ \E id \in DOMAIN tasks : mark_reminder_sent(id)
    \/ \E ep \in Endpoints : create_push_subscription("u1", ep, "p", "a")
    \/ \E ep \in Endpoints : delete_push_subscription("u1", ep)
    \/ handle_cron_binding
    \/ \E m \in MalformedMessages : PublishForeign(m)
    \/ \E e \in BagToSet(bus) : Redeliver(e)
    \/ \E e \in BagToSet(bus), pr, mr \in BOOLEAN, outcome \in GatewayOutcomes :
          ObservedDelivery(e, pr, outcome, mr)

SpecWorker == Init /\ [][NextWorker]_vars

\* the requests the recurrence is checked with: instants on Friday
\* 2024-01-05 and on Wednesday 2024-01-31, 09:00
Friday == DateTime(2024, 1, 5, 9 * 60)
MonthEnd == DateTime(2024, 1, 31, 9 * 60)

\* recurrence_end: none, the day after the Friday, the last day of February
Ends == {None, Some(Friday + Day), Some(DateTime(2024, 2, 29, 9 * 60))}

\* recurrence_rule: texts that parse, texts that do not, none
RuleTexts ==
    {"daily", "weekly", "monthly", "weekdays", " Daily", "cron:*/30 * * * *",
     "cron:0 10 * *", "yearly", ""}

\* is_recurring with recurrence_rule
Recurrences ==
    {<<TRUE, Some(rule)>> : rule \in RuleTexts}
    \cup {<<TRUE, None>>, <<FALSE, None>>, <<FALSE, Some("daily")>>}

\* the patch that gives a task a look of its own
Look == [title |-> "x", description |-> Some("d"), color |-> "red", pinned |-> TRUE]

\* a series of occurrences: the first task is created by a request, the
\* later ones by the toggles
NextRecurrence ==
    \/ \E reminder_at \in Opt({Friday, MonthEnd}), due_at \in Opt({Friday}),
          rec \in Recurrences, recurrence_end \in Ends :
          /\ nextTaskId <= MaxTasks
          /\ create_task("u1", "t", reminder_at, due_at, rec[1], rec[2], recurrence_end)
    \/ \E id \in DOMAIN tasks : update_task("u1", id, Look)
    \/ \E id \in DOMAIN tasks, commit_ok, publish_ok \in BOOLEAN :
          toggle_task_complete("u1", id, commit_ok, publish_ok)

SpecRecurrence == Init /\ [][NextRecurrence]_vars

\* one task and nothing but its toggles: every later row is an occurrence
\* made from it
NextToggles ==
    \/ \E reminder_at \in Opt({Friday, MonthEnd}), due_at \in Opt({Friday}),
          rec \in Recurrences, recurrence_end \in Ends :
          /\ nextTaskId = 1
          /\ create_task("u1", "t", reminder_at, due_at, rec[1], rec[2], recurrence_end)
    \/ \E commit_ok, publish_ok \in BOOLEAN :
          /\ 1 \in DOMAIN tasks
          /\ toggle_task_complete("u1", 1, commit_ok, publish_ok)

SpecToggles == Init /\ [][NextToggles]_vars

\* the requests the recurrence columns are written with
RulePatches == {[is_recurring |-> TRUE], [recurrence_rule |-> Some("yearly")]}

\* every operation that writes is_recurring or recurrence_rule
NextRules ==
    \/ \E rec \in {<<FALSE, None>>, <<TRUE, None>>,
                    <<TRUE, Some("daily")>>, <<TRUE, Some("yearly")>>} :
          /\ nextTaskId <= MaxTasks
          /\ create_task("u1", "t", None, None, rec[1], rec[2], None)
    \/ \E pattern \in {"daily", "Weekly", " Daily", "yearly"} :
          /\ nextTaskId <= MaxTasks
          /\ add_recurring_task("u1", "t", pattern)
    \/ \E id \in DOMAIN tasks, patch \in RulePatches : update_task("u1", id, patch)
    \/ \E id \in DOMAIN tasks, rule \in {"daily", "yearly"} :
          set_recurring("u1", id, rule, None)
    \/ \E id \in DOMAIN tasks : remove_recurring("u1", id)
    \/ \E id \in DOMAIN tasks : toggle_complete("u1", id)
    \/ \E id \in DOMAIN tasks : toggle_task_complete_twice("u1", id)
    \/ \E id \in DOMAIN tasks, commit_ok, publish_ok \in BOOLEAN :
          toggle_task_complete("u1", id, commit_ok, publish_ok)

SpecRules == Init /\ [][NextRules]_vars

\* the ids a request can name: the rows of the table and one that is not
TaskIds == 1..MaxRows

\* the handlers of routers/tasks.py that begin with the 404 / 403 prologue
OwnerOps ==
    {"get_task", "update_task", "toggle_task_complete", "delete_task",
     "restore_task", "permanent_delete_task"}

\* the prologue refusing: the task is not there (404) or is not the caller's
\* (403), and the handler raises before it writes or publishes
refuse(op, user_id, task_id) ==
    /\ ~Owned(user_id, task_id)
    /\ UNCHANGED <<tasks, nextTaskId, subs, now>>
    /\ Refused(op, Some(user_id), task_id,
               get_task(task_id, Some(user_id)).status)

\* the store under the requests of two users and of the worker
NextAccess ==
    \/ \E user_id \in Users :
          /\ nextTaskId < MaxRows
          /\ create_task(user_id, "t", Some(0), None, FALSE, None, None)
    \/ \E user_id \in Users, task_id \in TaskIds :
          \/ update_task(user_id, task_id, [title |-> "s"])
          \/ toggle_task_complete(user_id, task_id, TRUE, TRUE)
          \/ delete_task(user_id, task_id)
          \/ restore_task(user_id, task_id)
          \/ permanent_delete_task(user_id, task_id)
          \/ \E op \in OwnerOps : refuse(op, user_id, task_id)
    \/ \E task_id \in TaskIds : mark_reminder_sent(task_id)

SpecAccess == Init /\ [][NextAccess]_vars

\* routers/tasks.py TaskFilter
TaskFilter == {"active", "trash", "archive", "reminders"}

\* the listings over the tasks of two users
NextLists ==
    \/ \E user_id \in Users, reminder_at \in {None, Some(0)}, is_recurring \in BOOLEAN :
          /\ nextTaskId < MaxRows
          /\ create_task(user_id, "t", reminder_at, None, is_recurring,
                         IF is_recurring THEN Some("daily") ELSE None, None)
    \/ \E user_id \in Users, task_id \in TaskIds :
          \/ update_task(user_id, task_id, [archived |-> TRUE])
          \/ toggle_complete(user_id, task_id)
          \/ delete_task(user_id, task_id)
          \/ restore_task(user_id, task_id)
    \/ \E user_id \in Users :
          \/ \E filter \in TaskFilter :
                Listed("list_tasks", user_id, filter,
                       list_tasks(tasks, user_id, filter))
          \/ \E status \in {"all", "pending", "completed"} :
                Listed("task_service.list_tasks", user_id, status,
                       task_service_list_tasks(tasks, user_id, status))
          \/ Listed("list_tasks_with_reminders", user_id, "",
                    list_tasks_with_reminders(tasks, user_id))
          \/ Listed("list_recurring_tasks", user_id, "",
                    list_recurring_tasks(tasks, user_id))

SpecLists == Init /\ [][NextLists]_vars

\* the pipeline of one reminder from the tick to the mark
NextLive ==
    \/ /\ nextTaskId <= MaxTasks
       /\ create_task("u1", "t", Some(0), None, FALSE, None, None)
    \/ \E id \in DOMAIN tasks : delete_task("u1", id)
    \/ \E id \in DOMAIN tasks : restore_task("u1", id)
    \/ \E ep \in Endpoints : create_push_subscription("u1", ep, "p", "a")
    \/ \E ep \in Endpoints : delete_push_subscription("u1", ep)
    \/ handle_cron_binding
    \/ \E e \in BagToSet(bus) : Redeliver(e)
    \/ \E e \in BagToSet(bus), pr, mr \in BOOLEAN, outcome \in GatewayOutcomes :
          handle_reminders_topic(e, pr, outcome, mr)

\* a tick with a publish for the task that the sidecar accepts
PublishingTick(id) ==
    \E ok \in SUBSET DuePairs(now) :
        /\ \E p \in ok : p[1] = id
        /\ Tick(now, ok)

\* a delivery of an event of the task whose push the gateway accepts and
\* whose PATCH reaches the backend
AcceptedDelivery(id) ==
    \E e \in BagToSet(bus), pr \in BOOLEAN :
        /\ e.task_id = id
        /\ handle_reminders_topic(e, pr, [kind |-> "accepted", status |-> 201,
                                          mentions |-> FALSE], TRUE)

\* the cron binding fires every minute whatever the bus holds, and the bus
\* redelivers each event until it is acknowledged: for every task, a tick
\* that can publish for it again and again does, and a delivery of its
\* events that can be accepted again and again is accepted
SpecLive ==
    /\ Init
    /\ [][NextLive]_vars
    /\ \A id \in 1..MaxTasks : SF_vars(PublishingTick(id))
    /\ \A id \in 1..MaxTasks : SF_vars(AcceptedDelivery(id))

\* a reminder that its owner moves, or whose task its owner trashes, while
\* its events are on the way: the ticks, the PATCH of reminder_at, the
\* DELETE and the deliveries, every push accepted
NextRearm ==
    \/ /\ nextTaskId <= MaxTasks
       /\ create_task("u1", "t", Some(0), None, FALSE, None, None)
    \/ \E ep \in Endpoints : create_push_subscription("u1", ep, "p", "a")
    \/ \E id \in DOMAIN tasks, r \in Times :
          update_task("u1", id, [reminder_at |-> Some(r)])
    \/ \E id \in DOMAIN tasks : delete_task("u1", id)
    \/ Advance
    \/ handle_cron_binding
    \/ \E e \in BagToSet(bus), pr, mr \in BOOLEAN :
          ObservedDelivery(e, pr, [kind |-> "accepted", status |-> 201,
                                   mentions |-> FALSE], mr)

SpecRearm == Init /\ [][NextRearm]_vars

\* the instants the rules are applied to: the seven days of a week, month
\* ends of a leap year and of a common year, December; at midnight and at
\* half past nine
Instants ==
    {DateTime(2024, 1, day, minute) : day \in 1..7, minute \in {0, 570}}
    \cup {DateTime(date[1], date[2], date[3], minute) :
             date \in {<<2024, 1, 29>>, <<2024, 1, 30>>, <<2024, 1, 31>>,
                       <<2024, 2, 29>>, <<2024, 3, 31>>, <<2024, 11, 30>>,
                       <<2024, 12, 15>>, <<2024, 12, 31>>, <<2025, 1, 1>>,
                       <<2025, 1, 28>>, <<2025, 1, 31>>},
             minute \in {0, 570}}

\* the state in which calculate_next_occurrence is called on one instant
InitDates ==
    /\ tasks = <<>>
    /\ nextTaskId = 1
    /\ subs = {}
    /\ now \in Instants
    /\ bus = EmptyBag
    /\ out = NoOut
    /\ pushed = {}

\* utils/recurrence.py calculate_next_occurrence(now, rule), no end date
Occurrence(recurrence_rule) ==
    /\ out' = [kind |-> "next", rule |-> recurrence_rule,
               next |-> calculate_next_occurrence(now, recurrence_rule, None)]
    /\ UNCHANGED <<tasks, nextTaskId, subs, now, bus, pushed>>

\* the cron rules whose next instant is within days, and those whose scan
\* runs for most of max_iterations or all of it
CronRules ==
    {"cron:0 9 * * 1", "cron:0 0 * * 0", "cron:0,30 * * * *",
     "cron:*/30 * * * *", "cron:0 10 * * 1-5"}

YearlyCronRules == {"cron:0 0 1 1 *"}

NextDates == \E recurrence_rule \in RECURRENCE_PATTERNS : Occurrence(recurrence_rule)

\* the cron rules applied: the yearly ones at the first minute of a leap
\* year and of a common year
NextCron ==
    \/ \E recurrence_rule \in CronRules : Occurrence(recurrence_rule)
    \/ \E recurrence_rule \in YearlyCronRules :
          /\ now \in {DateTime(2024, 1, 1, 0), DateTime(2025, 1, 1, 0)}
          /\ Occurrence(recurrence_rule)

SpecCron == InitDates /\ [][NextCron]_vars

SpecDates == InitDates /\ [][NextDates]_vars

\* schemas/push_subscription.py PushSubscriptionCreate: the bodies of a POST
SubscriptionData ==
    {[endpoint |-> endpoint, p256dh_key |-> body[1], auth_key |-> body[2],
      user_agent |-> body[3]] :
        endpoint \in Endpoints,
        body \in {<<"p", "a", None>>, <<"q", "b", Some("agent")>>}}

\* the push-subscription requests of two users
NextSubscriptions ==
    \/ \E user_id \in Users, data \in SubscriptionData :
          LET result == Registered(subs, Existing(subs, user_id, data.endpoint),
                                   user_id, data)
          IN  Answered("create_push_subscription", user_id, data,
                       result.status, result.subs)
    \/ \E user_ids \in Users \X Users, datas \in SubscriptionData \X SubscriptionData :
          RegisteredTogether(user_ids, datas)
    \/ \E user_id \in Users, endpoint \in Endpoints :
          Answered("delete_push_subscription", user_id, [endpoint |-> endpoint],
                   204, Deleted(subs, user_id, endpoint))
    \/ \E user_id \in Users :
          Answered("delete_all_push_subscriptions", user_id, <<>>, 204,
                   DeletedAll(subs, user_id))

SpecSubscriptions == Init /\ [][NextSubscriptions]_vars

\* ------------------------------------------------------ scheduler claims

\* C2: while reminder_sent of a task is true no tick attempts, and so none
\* publishes, a ReminderEvent for it; a tick run after the mark publishes 0
C2_SentTaskNotReEmitted ==
    out.kind = "tick" =>
        \A id \in DOMAIN tasks :
            tasks[id].reminder_sent => \A p \in out.attempted : p[1] # id

C2_Witness ==
    /\ out.kind = "tick"
    /\ out.reminders_published = 0
    /\ \E id \in DOMAIN tasks :
          /\ tasks[id].reminder_sent
          /\ tasks[id].reminder_at # None
          /\ tasks[id].reminder_at[1] <= now
          /\ tasks[id].deleted_at = None
          /\ SubscriptionsOf(tasks[id].user_id) # {}

AssignsReminderAt(o) ==
    /\ o.kind = "store"
    /\ \/ o.op = "update_task" /\ "reminder_at" \in o.keys
       \/ o.op \in {"set_reminder", "remove_reminder"}

\* C3: after update_task with a patch that has the key reminder_at, and after
\* set_reminder, reschedule_task and remove_reminder, reminder_sent of the
\* row is false whatever it was
C3_ReminderAssignmentResetsSent ==
    AssignsReminderAt(out) => tasks[out.task_id].reminder_sent = FALSE

C3_Witness ==
    /\ out.kind = "store"
    /\ out.op = "update_task"
    /\ "reminder_at" \in out.keys
    /\ out.was_sent
    /\ tasks[out.task_id].reminder_sent = FALSE

\* C4: a step in which reminder_sent of a task goes from true to false is an
\* operation on that task that assigns its reminder_at
C4_SentClearedOnlyByReminderAssignment ==
    [][\A id \in DOMAIN tasks :
          (/\ tasks[id].reminder_sent
           /\ id \in DOMAIN tasks'
           /\ ~tasks'[id].reminder_sent)
          => AssignsReminderAt(out') /\ out'.task_id = id]_vars

C4_Witness ==
    /\ out.kind = "store"
    /\ out.op \in {"toggle_task_complete", "toggle_complete", "delete_task",
                   "restore_task", "mark_reminder_sent"}
    /\ out.was_sent
    /\ tasks[out.task_id].reminder_sent

\* C5: a tick attempts the event of exactly the pairs (t, s) with t.reminder_at
\* set and <= now, t.reminder_sent false, t.deleted_at null and s a
\* subscription of t's user
C5_TickAttemptsExactlyDuePairs ==
    out.kind = "tick" =>
        out.attempted =
            {p \in (DOMAIN tasks) \X subs :
                /\ tasks[p[1]].reminder_at # None
                /\ tasks[p[1]].reminder_at[1] <= now
                /\ tasks[p[1]].reminder_sent = FALSE
                /\ tasks[p[1]].deleted_at = None
                /\ p[2].user_id = tasks[p[1]].user_id}

C5_Witness ==
    /\ out.kind = "tick"
    /\ out.attempted # {}
    /\ \E row \in subs : \A p \in out.attempted : p[2] # row

\* C6: a tick changes no task row and no push-subscription row
C6_TickChangesNoRow ==
    [][out'.kind = "tick" => tasks' = tasks /\ subs' = subs]_vars

C6_Witness ==
    /\ out.kind = "tick"
    /\ out.reminders_published >= 1
    /\ \A p \in out.attempted : tasks[p[1]].reminder_sent = FALSE

\* C7: a tick attempts every due pair whatever the publishes answer, counts
\* in reminders_published the events that reached the bus, and leaves
\* every attempted pair due for the next tick
C7_TickSurvivesPublishFailure ==
    [][out'.kind = "tick" =>
          /\ out'.attempted = DuePairs(now)
          /\ out'.reminders_published =
                BagCardinality(bus') - BagCardinality(bus)
          /\ out'.attempted \subseteq DuePairs(now)']_vars

C7_Witness ==
    /\ out.kind = "tick"
    /\ out.reminders_published >= 1
    /\ out.reminders_published < Cardinality(out.attempted)
    /\ out.attempted \subseteq DuePairs(now)

\* --------------------------------------------------------- worker claims

\* C1: over ticks, redeliveries and deliveries in any order, the gateway
\* accepts at most one push per subscription for a (task_id, reminder_at)
C1_AtMostOnePushPerSubscription ==
    [][(out'.kind = "ack" /\ out'.gateway = 201) =>
          PushKey(out'.event) \notin pushed]_vars

\* C8: a delivery for a task whose stored reminder_sent is true is
\* acknowledged without a push being dispatched
C8_SentTaskAckedWithoutPush ==
    (out.kind = "ack" /\ out.was_sent) =>
        (out.status = "SUCCESS" /\ ~out.dispatched)

\* C9, as claimed: an acknowledged event that the gateway accepted leaves
\* reminder_sent of its task true in the store
C9_AcceptedAckImpliesSent ==
    (out.kind = "ack" /\ out.gateway = 201 /\ out.status = "SUCCESS") =>
        /\ out.event.task_id \in DOMAIN tasks
        /\ tasks[out.event.task_id].reminder_sent

\* C9, amended: an event that the gateway accepted is acknowledged after the
\* PATCH was sent; reminder_sent of its task is true when the PATCH was
\* answered 200, and the task rows are as they were when it was not
C9_AcceptedAckAfterMarkCall ==
    [][(out'.kind = "ack" /\ out'.gateway = 201) =>
          /\ out'.status = "SUCCESS"
          /\ IF out'.mark = 200
             THEN /\ out'.event.task_id \in DOMAIN tasks'
                  /\ tasks'[out'.event.task_id].reminder_sent
             ELSE tasks' = tasks]_vars

C9_Witness ==
    /\ out.kind = "ack"
    /\ out.gateway = 201
    /\ out.mark = 200
    /\ ~out.was_sent
    /\ tasks[out.event.task_id].reminder_sent

\* C10: a delivery the gateway answers with 400 or 410 deletes the
\* subscription row of the event's endpoint, leaves the other rows, and is
\* acknowledged
C10_TerminalFailureDeletesSubscription ==
    [][(out'.kind = "ack" /\ out'.gateway \in {400, 410}) =>
          /\ out'.status = "SUCCESS"
          /\ subs' = {row \in subs :
                        row.endpoint # out'.event.push_subscription.endpoint}]_vars

\* C11: the worker calls mark_reminder_sent, and so sets reminder_sent of a
\* task, only in a delivery whose push the gateway accepted with 2xx; a
\* delivery the gateway answered with 400 or 410 sends no PATCH
C11_MarkOnlyAfterAcceptedPush ==
    (out.kind = "ack" /\ out.mark # 0) => out.gateway = 201

\* C12: a delivery whose push failed with a non-terminal error (a status
\* other than 400 and 410, or no answer at all) is answered RETRY and
\* changes no task row and no subscription row
C12_TransientFailureIsRetried ==
    [][(/\ out'.kind = "ack"
        /\ out'.dispatched
        /\ out'.gateway \notin {201, 400, 410}) =>
          /\ out'.status = "RETRY"
          /\ tasks' = tasks
          /\ subs' = subs]_vars

\* a delivered message that is not a well-formed ReminderEvent
IsMalformed(e) ==
    \/ Raises(e)
    \/ "task_id" \notin DOMAIN e
    \/ "push_subscription" \notin DOMAIN e

\* C13: the delivery of a message that cannot be parsed, lacks task_id or
\* push_subscription or makes the handler raise is never answered RETRY,
\* dispatches no push, changes nothing in the store, and takes that message
\* off the topic, leaving the later ones to be handled
C13_MalformedEventIsDropped ==
    [][(out'.kind = "ack" /\ IsMalformed(out'.event)) =>
          /\ out'.status \in {"SUCCESS", "DROP"}
          /\ ~out'.dispatched
          /\ out'.mark = 0
          /\ store' = store
          /\ pushed' = pushed
          /\ bus' = bus (-) SetToBag({out'.event})]_vars

C13_Witness ==
    /\ out.kind = "ack"
    /\ IsMalformed(out.event)
    /\ out.status = "DROP"
    /\ BagCardinality(bus) >= 1

\* ------------------------------------------------------ recurrence claims

\* a step in which PATCH /tasks/{id}/complete is answered 200 and moves the
\* task from not completed to completed
TogglesToCompleted(id) ==
    /\ out'.kind = "store"
    /\ out'.op = "toggle_task_complete"
    /\ out'.task_id = id
    /\ out'.status = 200
    /\ ~tasks[id].completed

\* the next occurrence computed for a recurring task, recurrence_end left
\* aside; None when the task has no rule that parses
NextOccurrence(task) ==
    IF /\ task.is_recurring
       /\ task.recurrence_rule # None
       /\ parse_recurrence_rule(task.recurrence_rule[1]).ok
    THEN calculate_next_occurrence(base_date(task), task.recurrence_rule[1], None)
    ELSE None

\* the next occurrence is not after recurrence_end
WithinEnd(task) ==
    /\ NextOccurrence(task) # None
    /\ \/ task.recurrence_end = None
       \/ NextOccurrence(task)[1] <= task.recurrence_end[1]

\* C14: toggling to completed a recurring task whose next occurrence is not
\* after recurrence_end inserts exactly one task, with parent_task_id the
\* original's if it has one and the original's id otherwise, reminder_sent
\* and completed false and is_recurring true, and leaves the original
\* completed and not recurring
C14_CompletionMaterializesNextOccurrence ==
    [][\A id \in DOMAIN tasks :
          (TogglesToCompleted(id) /\ WithinEnd(tasks[id])) =>
             /\ nextTaskId \notin DOMAIN tasks
             /\ DOMAIN tasks' = DOMAIN tasks \cup {nextTaskId}
             /\ tasks'[nextTaskId].parent_task_id =
                   IF tasks[id].parent_task_id # None
                   THEN tasks[id].parent_task_id ELSE Some(id)
             /\ tasks'[nextTaskId].reminder_sent = FALSE
             /\ tasks'[nextTaskId].completed = FALSE
             /\ tasks'[nextTaskId].is_recurring = TRUE
             /\ tasks'[id].completed = TRUE
             /\ tasks'[id].is_recurring = FALSE]_vars

C14_Witness ==
    /\ out.kind = "store"
    /\ out.op = "toggle_task_complete"
    /\ out.task_id = 2
    /\ out.event # None
    /\ out.event[1].task_data.next_occurrence_id = Some(3)
    /\ tasks[2].parent_task_id = Some(1)
    /\ tasks[3].parent_task_id = Some(1)
    /\ tasks[2].completed
    /\ ~tasks[2].is_recurring

\* C15: for the rules daily, weekly, monthly and weekdays, toggling a
\* recurring task to completed inserts no task exactly when the next
\* occurrence is strictly after a recurrence_end that is set; a next
\* occurrence equal to recurrence_end is materialized
C15_NoOccurrenceExactlyPastEnd ==
    [][\A id \in DOMAIN tasks :
          (/\ TogglesToCompleted(id)
           /\ NextOccurrence(tasks[id]) # None
           /\ parse_recurrence_rule(tasks[id].recurrence_rule[1]).rule_type
                 \in RECURRENCE_PATTERNS) =>
             (DOMAIN tasks' = DOMAIN tasks <=>
                 /\ tasks[id].recurrence_end # None
                 /\ NextOccurrence(tasks[id])[1] > tasks[id].recurrence_end[1])]_vars

C15_Witness ==
    /\ out.kind = "store"
    /\ out.op = "toggle_task_complete"
    /\ out.event # None
    /\ out.event[1].task_data.next_occurrence_id # None
    /\ LET next_task == tasks[out.event[1].task_data.next_occurrence_id[1]]
       IN  /\ next_task.recurrence_end # None
           /\ next_task.reminder_at = next_task.recurrence_end

\* C16: the next occurrence has the user_id, title, description, color,
\* pinned, recurrence_rule and recurrence_end of the completed task, and the
\* completed task keeps every field other than completed and is_recurring
C16_OccurrenceCopiesAndOriginalKeeps ==
    [][\A id \in DOMAIN tasks :
          TogglesToCompleted(id) =>
             /\ \A f \in DOMAIN tasks[id] \ {"completed", "is_recurring"} :
                   tasks'[id][f] = tasks[id][f]
             /\ \A new \in DOMAIN tasks' \ DOMAIN tasks :
                   \A f \in {"user_id", "title", "description", "color", "pinned",
                             "recurrence_rule", "recurrence_end"} :
                      tasks'[new][f] = tasks[id][f]]_vars

C16_Witness ==
    /\ out.kind = "store"
    /\ out.op = "toggle_task_complete"
    /\ out.event # None
    /\ out.event[1].task_data.next_occurrence_id # None
    /\ LET next_task == tasks[out.event[1].task_data.next_occurrence_id[1]]
       IN  /\ next_task.title = "x"
           /\ next_task.description = Some("d")
           /\ next_task.color = "red"
           /\ next_task.pinned
           /\ tasks[out.task_id].pinned

\* C17: in the next occurrence reminder_at is the computed next occurrence
\* when the original had reminder_at, and due_at is the computed next
\* occurrence otherwise, also when the original had neither
C17_NextDateGoesToReminderOrDue ==
    [][\A id \in DOMAIN tasks :
          TogglesToCompleted(id) =>
             \A new \in DOMAIN tasks' \ DOMAIN tasks :
                IF tasks[id].reminder_at # None
                THEN tasks'[new].reminder_at = NextOccurrence(tasks[id])
                ELSE tasks'[new].due_at = NextOccurrence(tasks[id])]_vars

\* C18: a completed TaskEvent reaches the topic only in a toggle whose commit
\* moved the task from not completed to completed; a toggle from completed
\* publishes nothing; when the publish fails the commit stands and the
\* request is answered 200
C18_CompletedEventAfterCommit ==
    [][(out'.kind = "store" /\ out'.op = "toggle_task_complete") =>
          /\ out'.published =>
                /\ out'.event # None
                /\ out'.event[1].event_type = "completed"
                /\ out'.event[1].task_id = out'.task_id
                /\ ~tasks[out'.task_id].completed
                /\ tasks'[out'.task_id].completed
          /\ tasks[out'.task_id].completed =>
                out'.event = None /\ ~out'.published
          /\ (out'.event # None /\ ~out'.published) =>
                /\ out'.status = 200
                /\ ~tasks[out'.task_id].completed
                /\ tasks'[out'.task_id].completed]_vars

C18_Witness ==
    /\ out.kind = "store"
    /\ out.op = "toggle_task_complete"
    /\ out.status = 200
    /\ out.event # None
    /\ ~out.published
    /\ tasks[out.task_id].completed

\* C19: a toggle inserts the next occurrence and marks the original
\* completed and not recurring in one commit: a step has the new row exactly
\* when it clears is_recurring of the original, and then the original is
\* completed
C19_MaterializationIsOneCommit ==
    [][(out'.kind = "store" /\ out'.op = "toggle_task_complete") =>
          /\ DOMAIN tasks' # DOMAIN tasks <=>
                /\ tasks[out'.task_id].is_recurring
                /\ ~tasks'[out'.task_id].is_recurring
          /\ DOMAIN tasks' # DOMAIN tasks =>
                /\ tasks'[out'.task_id].completed
                /\ \E new \in DOMAIN tasks' \ DOMAIN tasks :
                      DOMAIN tasks' = DOMAIN tasks \cup {new}]_vars

C19_Witness ==
    /\ out.kind = "store"
    /\ out.op = "toggle_task_complete"
    /\ out.task_id = 1
    /\ out.status = 200
    /\ 2 \in DOMAIN tasks
    /\ tasks[2].parent_task_id = Some(1)
    /\ ~tasks[2].completed
    /\ tasks[1].completed
    /\ ~tasks[1].is_recurring

\* C20: toggling to completed a recurring task whose recurrence_rule does
\* not parse is answered with a 4xx validation error, stores nothing and
\* publishes nothing
C20_InvalidRuleIsValidationError ==
    [][\A id \in DOMAIN tasks :
          (/\ out'.kind = "store"
           /\ out'.op = "toggle_task_complete"
           /\ out'.task_id = id
           /\ ~tasks[id].completed
           /\ tasks[id].is_recurring
           /\ tasks[id].recurrence_rule # None
           /\ ~parse_recurrence_rule(tasks[id].recurrence_rule[1]).ok) =>
             /\ out'.status \in 400..499
             /\ tasks' = tasks
             /\ out'.event = None]_vars

\* ------------------------------------------------------------ store claims

\* C21: every stored task with is_recurring = true has a recurrence_rule
\* that parse_recurrence_rule accepts
C21_RecurringTaskHasParseableRule ==
    \A id \in DOMAIN tasks :
        tasks[id].is_recurring =>
            /\ tasks[id].recurrence_rule # None
            /\ parse_recurrence_rule(tasks[id].recurrence_rule[1]).ok

\* C22: mark_reminder_sent asks for no user; on an existing task it sets
\* reminder_sent and changes no other column and no other row, a repeated call
\* changes nothing, and on an unknown id it answers 404 and changes nothing
C22_MarkReminderSentIsIdempotent ==
    [][(out'.kind \in {"store", "refused"} /\ out'.op = "mark_reminder_sent")
          => LET id == out'.task_id
             IN  /\ UNCHANGED <<nextTaskId, subs, bus>>
                 /\ IF id \in DOMAIN tasks
                    THEN /\ out'.kind = "store"
                         /\ tasks' = [tasks EXCEPT ![id].reminder_sent = TRUE]
                         /\ tasks[id].reminder_sent => tasks' = tasks
                    ELSE /\ out'.kind = "refused"
                         /\ out'.status = 404
                         /\ tasks' = tasks]_vars

C22_Witness ==
    /\ out.kind = "store"
    /\ out.op = "mark_reminder_sent"
    /\ out.was_sent
    /\ tasks[out.task_id].user_id = "u2"
    /\ tasks[out.task_id].reminder_sent

\* C25: get_task, update_task, toggle_task_complete, delete_task,
\* restore_task and permanent_delete_task called by a user who does not own
\* the task are refused, with 404 when the id is not in the table and 403
\* when the task is another user's; the refusal changes no row, inserts no
\* task and publishes nothing, and no call of a user who is not the owner is
\* carried out
C25_ForeignCallIsRefused ==
    [][/\ (out'.kind = "refused" /\ out'.op \in OwnerOps)
            => /\ UNCHANGED <<tasks, nextTaskId, subs, bus>>
               /\ out'.status = IF out'.task_id \in DOMAIN tasks THEN 403 ELSE 404
               /\ out'.task_id \in DOMAIN tasks
                    => tasks[out'.task_id].user_id # out'.by[1]
       /\ (out'.kind = "store" /\ out'.op \in OwnerOps)
            => tasks[out'.task_id].user_id = out'.by[1]]_vars

C25_Witness ==
    /\ out.kind = "refused"
    /\ out.op = "permanent_delete_task"
    /\ out.status = 403
    /\ out.task_id \in DOMAIN tasks
    /\ tasks[out.task_id].user_id # out.by[1]

\* C27: a listing returns only tasks of the calling user; list_tasks with
\* the filter trash returns only tasks whose deleted_at is set, and with any
\* other filter, like every list function of the service layer, it returns
\* no task whose deleted_at is set
C27_ListingsKeepToOwnerAndTrash ==
    out.kind = "list"
        => \A id \in out.ids :
              /\ id \in DOMAIN tasks
              /\ tasks[id].user_id = out.user_id
              /\ IF out.op = "list_tasks" /\ out.filter = "trash"
                 THEN tasks[id].deleted_at # None
                 ELSE tasks[id].deleted_at = None

C27_Witness ==
    /\ out.kind = "list"
    /\ out.op = "list_tasks"
    /\ out.filter = "archive"
    /\ out.ids # {}
    /\ \E id \in DOMAIN tasks \ out.ids :
          /\ tasks[id].user_id = out.user_id
          /\ tasks[id].archived
          /\ tasks[id].deleted_at # None

\* C28: a task that is due, unsent and not deleted and whose owner has a
\* subscription either leaves that condition (it is deleted, or the owner
\* loses every subscription) or gets reminder_sent = true, when ticks keep
\* publishing, the bus keeps delivering, the gateway accepts a push and the
\* worker's PATCH reaches the backend
Pending(id) ==
    /\ id \in DueTasks(now)
    /\ SubscriptionsOf(tasks[id].user_id) # {}

C23_UpsertLeavesOneRowOfLastCall ==
    (out.kind = "subs" /\ out.op = "create_push_subscription")
        => Existing(subs, out.user_id, out.data.endpoint)
           = {PushSubscription(out.user_id, out.data.endpoint,
                               out.data.p256dh_key, out.data.auth_key,
                               out.data.user_agent)}

\* C24: no two push-subscription rows have the same endpoint
C24_EndpointIsUnique ==
    \A row, other \in subs : row.endpoint = other.endpoint => row = other

C24_Witness ==
    /\ out.kind = "subs"
    /\ out.op = "create_push_subscription, twice"
    /\ out.user_id[1] # out.user_id[2]
    /\ out.status = <<201, 500>>
    /\ \E row \in subs : /\ row.endpoint = out.data[1].endpoint
                         /\ row.user_id = out.user_id[1]

\* C26: delete_push_subscription(user, E) removes the row of (user, E) if
\* there is one and no other row, delete_all_push_subscriptions(user) removes
\* the rows of user and no other row
C26_DeletesTouchOnlyTheCallersRows ==
    [][/\ (out'.kind = "subs" /\ out'.op = "delete_push_subscription")
            => /\ subs' = subs \ Existing(subs, out'.user_id, out'.data.endpoint)
               /\ Cardinality(subs \ subs') <= 1
       /\ (out'.kind = "subs" /\ out'.op = "delete_all_push_subscriptions")
            => /\ \A row \in subs : row \in subs' <=> row.user_id # out'.user_id
               /\ subs' \subseteq subs]_vars

C26_Witness ==
    /\ out.kind = "subs"
    /\ out.op = "delete_push_subscription"
    /\ Cardinality(subs) = 1
    /\ \E row \in subs : /\ row.user_id # out.user_id
                         /\ row.endpoint # out.data.endpoint

\* ------------------------------------------------------- recurrence rules

\* C29: the next occurrence under "weekdays" is the first of the days
\* current + 1, current + 2, ... that is a Monday to Friday, at the same time
\* of day; from a Friday and from a Saturday it is the Monday after
C29_WeekdaysIsNextWorkingDay ==
    (out.kind = "next" /\ out.rule = "weekdays")
        => /\ out.next # None
           /\ \E k \in 1..7 :
                /\ out.next[1] = now + k * Day
                /\ (out.next[1] \div Day) % 7 \in 0..4
                /\ \A j \in 1..(k - 1) : ((now + j * Day) \div Day) % 7 \in {5, 6}
           /\ out.next[1] % Day = now % Day
           /\ (now \div Day) % 7 = 4 => out.next[1] = now + 3 * Day
           /\ (now \div Day) % 7 = 5 => out.next[1] = now + 2 * Day

C29_Witness ==
    /\ out.kind = "next"
    /\ out.rule = "weekdays"
    /\ now = DateTime(2024, 1, 6, 570)
    /\ out.next = Some(DateTime(2024, 1, 8, 570))

\* C30: the next occurrence under "monthly" is in the month after current's
\* (January of the next year after December), on the day of current or on
\* the last day of that month if it is shorter, at the same time of day;
\* 31 January gives 29 February in a leap year and 28 February otherwise
C30_MonthlyIsSameDayNextMonth ==
    (out.kind = "next" /\ out.rule = "monthly")
        => /\ out.next # None
           /\ LET c == DateOf(now)
                  n == DateOf(out.next[1])
                  last == monthrange(n.year, n.month)
              IN  /\ n.year = IF c.month = 12 THEN c.year + 1 ELSE c.year
                  /\ n.month = IF c.month = 12 THEN 1 ELSE c.month + 1
                  /\ n.day = IF c.day < last THEN c.day ELSE last
                  /\ n.minute = c.minute
                  /\ (c.month = 1 /\ c.day = 31)
                        => /\ n.month = 2
                           /\ n.day = IF IsLeap(c.year) THEN 29 ELSE 28

C30_Witness ==
    /\ out.kind = "next"
    /\ out.rule = "monthly"
    /\ now = DateTime(2025, 1, 31, 570)
    /\ out.next = Some(DateTime(2025, 2, 28, 570))

\* C31: under a cron rule of five fields the next occurrence is the first
\* minute after current whose minute, hour, day of month, month and day of
\* week (0 is Sunday) match the five fields, and there is none exactly when
\* no minute of the 525600 after current matches
C31_CronIsEarliestMatchingMinute ==
    (out.kind = "next" /\ cron_expr_of(out.rule) # None)
        => LET parts == split(cron_expr_of(out.rule)[1])
               Matches(c) ==
                   /\ _matches_field(c % 60, parts[1])
                   /\ _matches_field((c % Day) \div 60, parts[2])
                   /\ _matches_field(DateOf(c).day, parts[3])
                   /\ _matches_field(DateOf(c).month, parts[4])
                   /\ _matches_field(((c \div Day) + 1) % 7, parts[5])
           IN  IF out.next = None
               THEN \A c \in (now + 1)..(now + 525600) : ~Matches(c)
               ELSE /\ out.next[1] \in (now + 1)..(now + 525600)
                    /\ Matches(out.next[1])
                    /\ \A c \in (now + 1)..(out.next[1] - 1) : ~Matches(c)

C31_Witness ==
    /\ out.kind = "next"
    /\ out.rule = "cron:0 0 1 1 *"
    /\ now = DateTime(2025, 1, 1, 0)
    /\ out.next = Some(DateTime(2026, 1, 1, 0))

\* ------------------------------------------------- toggle and tick claims

\* C32: the service-layer toggle_complete, completing a recurring task whose
\* rule yields a next date, changes the store as toggle_task_complete does:
\* it inserts the next occurrence and clears is_recurring of the completed
\* task
C32_ServiceToggleMaterializes ==
    [][\A id \in DOMAIN tasks :
          (/\ out'.kind = "store"
           /\ out'.op = "toggle_complete"
           /\ out'.task_id = id
           /\ ~tasks[id].completed
           /\ WithinEnd(tasks[id])) =>
             /\ nextTaskId \notin DOMAIN tasks
             /\ DOMAIN tasks' = DOMAIN tasks \cup {nextTaskId}
             /\ tasks'[id].completed = TRUE
             /\ tasks'[id].is_recurring = FALSE]_vars

C34_OverlappingTogglesMaterializeOnce ==
    [][(out'.kind = "store" /\ out'.op = "toggle_task_complete, twice")
          => Cardinality(DOMAIN tasks' \ DOMAIN tasks) <= 1]_vars

\* C35: whenever reminder_sent of a task is true, the gateway has been given
\* a push for the reminder_at the task has now, also when reminder_at was
\* changed while an event of the old value was on the bus
C35_SentMeansCurrentReminderPushed ==
    \A id \in DOMAIN tasks :
        tasks[id].reminder_sent
            => \E key \in pushed : key[1] = id /\ key[2] = tasks[id].reminder_at

C37_TogglesMaterializeAtMostOnce ==
    Cardinality(DOMAIN tasks \ {1}) <= 1

C37_Witness ==
    /\ out.kind = "store"
    /\ out.op = "toggle_task_complete"
    /\ out.status = 200
    /\ out.event # None
    /\ out.event[1].task_data.next_occurrence_id = None
    /\ tasks[1].completed
    /\ tasks[1].recurrence_rule # None
    /\ DOMAIN tasks = {1, 2}

\* C38: the worker hands no push to the gateway for an event whose task is
\* in the trash when the event is handled
C38_NoPushForTrashedTask ==
    (out.kind = "ack" /\ out.dispatched) =>
        /\ out.event.task_id \in DOMAIN tasks
        /\ tasks[out.event.task_id].deleted_at = None

\* C39: a tick that selects a due task whose owner has no subscription
\* attempts no event for it, puts no event of it on the bus and leaves its
\* row as it was, reminder_sent false, so that the next tick selects it again
C39_NoSubscriptionNoEvent ==
    [][out'.kind = "tick" =>
          \A id \in DueTasks(now) :
              SubscriptionsOf(tasks[id].user_id) = {} =>
                  /\ \A p \in out'.attempted : p[1] # id
                  /\ \A e \in BagToSet(bus') :
                        ("task_id" \in DOMAIN e /\ e.task_id = id)
                            => CopiesIn(e, bus') = CopiesIn(e, bus)
                  /\ tasks'[id] = tasks[id]
                  /\ ~tasks'[id].reminder_sent
                  /\ (id \in DueTasks(now))']_vars

C39_Witness ==
    /\ out.kind = "tick"
    /\ out.attempted = {}
    /\ out.reminders_published = 0
    /\ \E id \in DueTasks(now) : SubscriptionsOf(tasks[id].user_id) = {}

\* C40: the completed event of a toggle carries is_recurring of the row as
\* committed: false when the toggle made a next occurrence, true only when
\* the task was recurring and the toggle made none
C40_CompletedEventCarriesCommittedFlag ==
    [][(/\ out'.kind = "store"
        /\ out'.op = "toggle_task_complete"
        /\ out'.event # None) =>
          LET id == out'.task_id
              event == out'.event[1]
          IN  /\ event.is_recurring = tasks'[id].is_recurring
              /\ DOMAIN tasks' # DOMAIN tasks =>
                    /\ ~event.is_recurring
                    /\ event.task_data.next_occurrence_id # None
              /\ event.is_recurring =>
                    /\ tasks[id].is_recurring
                    /\ DOMAIN tasks' = DOMAIN tasks
                    /\ event.task_data.next_occurrence_id = None]_vars

C40_Witness ==
    /\ out.kind = "store"
    /\ out.op = "toggle_task_complete"
    /\ out.event # None
    /\ out.event[1].is_recurring
    /\ out.event[1].recurrence_rule \notin {None, Some("")}
    /\ out.event[1].task_data.next_occurrence_id = None
    /\ tasks[out.task_id].recurrence_end # None
    /\ tasks[out.task_id].is_recurring
====
